---- MODULE Spec2Model ----
(***************************************************************************)
(* Model of examples/excel-demo/mortgage_calculator.py.                    *)
(*                                                                         *)
(* create_mortgage_calculator() is one straight-line procedure that fills  *)
(* an openpyxl workbook statement by statement and saves it.  The model    *)
(* executes the procedure one block at a time, a loop one iteration at a   *)
(* time: the position is (seg, i) = (block of the source, loop index), and *)
(* the workbook under construction is the state.  Formula                  *)
(* strings are kept as syntax trees, one node per token group of the       *)
(* f-string, so the cells a formula names can be read off and the formula  *)
(* can be evaluated the way the consuming spreadsheet application does.    *)
(***************************************************************************)
EXTENDS Integers, Sequences, FiniteSets, TLC

\* ---------------------------------------------------------------- bounds
\* The user of the generated file tries terms of 0, 1/2, 1, ... MaxTermHalves/2
\* years (besides the generated default of 30 years).
MaxTermHalves == 5
\* The user types extra payments into the first MaxEditRow amortization rows.
MaxEditRow == 1
\* How many times the generation is run (second specification only).
MaxRuns == 2

\* ------------------------------------------------------ program constants
max_payments == 360
\* range(1, 31): the last year of the yearly summary
LastYear == 30
\* row = 22 + i: the header row of the amortization table
ScheduleHeaderRow == 22
\* row = 4 + year: the header row of the yearly summary
SummaryHeaderRow == 4
\* Numbers are evaluated in fixed point with Scale units per 1: the default
\* rate 0.065 needs three decimals.
Scale == 1000

\* openpyxl.utils.column_index_from_string for the columns the program uses
ColIndex == [A |-> 1, B |-> 2, C |-> 3, D |-> 4, E |-> 5, F |-> 6, G |-> 7, H |-> 8]
\* openpyxl.utils.get_column_letter
ColLetter == <<"A", "B", "C", "D", "E", "F", "G", "H">>

MainTitle == "Mortgage Calculator"
SummaryTitle == "Yearly Summary"
HelpTitle == "Instructions"

\* ------------------------------------------------------- Python values
\* A Python number n/d (300000 = 300000/1, 0.065 = 65/1000).
PyNum(n, d) == [t |-> "num", n |-> n, d |-> d]
\* A Python string that does not start with "=".
PyStr(s) == [t |-> "str", s |-> s]
\* A Python string "=" + text, the text kept as its syntax tree.
PyFormula(ast) == [t |-> "formula", ast |-> ast]

\* openpyxl's Cell._bind_value: a string starting with "=" is stored with
\* data type "f", any other string with "s", a number with "n".
DataType(v) == CASE v.t = "formula" -> "f"
                 [] v.t = "str" -> "s"
                 [] v.t = "num" -> "n"

\* ------------------------------------------------------ formula syntax
\* A cell reference as it is spelled: optional 'Sheet'! prefix, column letter,
\* optional $ before the row, row number.
RefNode(sheet, col, rowAbs, row) ==
    [op |-> "ref", sheet |-> sheet, col |-> col, rowAbs |-> rowAbs, row |-> row]
\* C$8 on the same sheet
AbsRow(col, row) == RefNode("", col, TRUE, row)
\* H22 on the same sheet
Rel(col, row) == RefNode("", col, FALSE, row)
\* 'Mortgage Calculator'!B$23:B$382
RangeNode(sheet, col, r1, r2) ==
    [op |-> "range", sheet |-> sheet, col |-> col, r1 |-> r1, r2 |-> r2]
NumNode(n) == [op |-> "num", n |-> n]
\* the empty string literal ""
EmptyStr == [op |-> "str", s |-> ""]
Node(op, args) == [op |-> op, args |-> args]
IfNode(c, a, b) == Node("IF", <<c, a, b>>)
\* B{row}<>""
NotBlank(col, row) == Node("<>", <<Rel(col, row), EmptyStr>>)

\* ------------------------------------------- formulas of the results block
\* "=-PMT(C7/12, C8*12, C6)"
MonthlyPaymentFormula ==
    Node("neg", <<Node("PMT", <<Node("/", <<Rel("C", 7), NumNode(12)>>),
                                Node("*", <<Rel("C", 8), NumNode(12)>>),
                                Rel("C", 6)>>)>>)
\* "=C8*12"
TotalPaymentsFormula == Node("*", <<Rel("C", 8), NumNode(12)>>)
\* "=C13*C14"
TotalPaidFormula == Node("*", <<Rel("C", 13), Rel("C", 14)>>)
\* "=C15-C6"
TotalInterestFormula == Node("-", <<Rel("C", 15), Rel("C", 6)>>)
\* a mistyped input row: "=C16/C5"
RatioFormulaWrongCell == Node("/", <<Rel("C", 16), Rel("C", 5)>>)
\* "=C16/C6"
RatioFormula == Node("/", <<Rel("C", 16), Rel("C", 6)>>)

\* ------------------------------------- formulas of amortization row 22 + i
\* the term taken for a number of months: f"=IF({i}<=C$8, {i}, \"\")"
PaymentNumberFormulaYears(i) ==
    IfNode(Node("<=", <<NumNode(i), AbsRow("C", 8)>>), NumNode(i), EmptyStr)
\* f"=IF({i}<=C$8*12, {i}, \"\")"
PaymentNumberFormula(i) ==
    IfNode(Node("<=", <<NumNode(i), Node("*", <<AbsRow("C", 8), NumNode(12)>>)>>),
           NumNode(i), EmptyStr)
\* the start date looked up one row too low: EDATE(C$10, {i}-1)
PaymentDateFormulaWrongInput(i, row) ==
    IfNode(NotBlank("B", row),
           Node("EDATE", <<AbsRow("C", 10), Node("-", <<NumNode(i), NumNode(1)>>)>>),
           EmptyStr)
\* f'=IF(B{row}<>"", EDATE(C$9, {i}-1), "")'
PaymentDateFormula(i, row) ==
    IfNode(NotBlank("B", row),
           Node("EDATE", <<AbsRow("C", 9), Node("-", <<NumNode(i), NumNode(1)>>)>>),
           EmptyStr)
\* f'=IF(B{row}<>"", C$13, "")'
PaymentFormula(row) == IfNode(NotBlank("B", row), AbsRow("C", 13), EmptyStr)
\* the prior balance taken from the row itself: H{row} for H{row-1}
PriorBalanceSameRow(i, row) == IF i = 1 THEN AbsRow("C", 6) ELSE Rel("H", row)
\* the balance the row's interest is charged on: C$6 in the first row,
\* H{row-1} in every other
PriorBalance(i, row) == IF i = 1 THEN AbsRow("C", 6) ELSE Rel("H", row - 1)
\* {prior}*C$7/12
InterestTerm(i, row) ==
    Node("/", <<Node("*", <<PriorBalance(i, row), AbsRow("C", 7)>>), NumNode(12)>>)
\* f'=IF(B{row}<>"", C$13-({prior}*C$7/12), "")'
PrincipalFormula(i, row) ==
    IfNode(NotBlank("B", row),
           Node("-", <<AbsRow("C", 13), InterestTerm(i, row)>>),
           EmptyStr)
\* f'=IF(B{row}<>"", {prior}*C$7/12, "")'
InterestFormula(i, row) ==
    IfNode(NotBlank("B", row), InterestTerm(i, row), EmptyStr)
\* the zero written as a formula: "=0"
ExtraPaymentFormula == PyFormula(NumNode(0))
\* ws.cell(row=row, column=7).value = 0
ExtraPaymentValue == PyNum(0, 1)
\* the floor forgotten: f'=IF(B{row}<>"", {prior}-E{row}-G{row}, "")'
BalanceFormulaNoFloor(i, row) ==
    IfNode(NotBlank("B", row),
           Node("-", <<Node("-", <<PriorBalance(i, row), Rel("E", row)>>), Rel("G", row)>>),
           EmptyStr)
\* f'=IF(B{row}<>"", MAX(0, {prior}-E{row}-G{row}), "")'
BalanceFormula(i, row) ==
    IfNode(NotBlank("B", row),
           Node("MAX", <<NumNode(0),
                         Node("-", <<Node("-", <<PriorBalance(i, row), Rel("E", row)>>),
                                     Rel("G", row)>>)>>),
           EmptyStr)

\* ------------------------------------ formulas of yearly-summary row 4 + year
\* f'=IF({year}<=\'Mortgage Calculator\'!C$8, {year}, "")'
YearFormula(year) ==
    IfNode(Node("<=", <<NumNode(year), RefNode(MainTitle, "C", TRUE, 8)>>),
           NumNode(year), EmptyStr)
\* SUMPRODUCT(('MC'!B$23:B$382>={start})*('MC'!B$23:B$382<={end})*('MC'!{col}$23:{col}$382))
YearSum(col, start_payment, end_payment) ==
    Node("SUMPRODUCT",
         <<Node("*", <<Node("*", <<Node(">=", <<RangeNode(MainTitle, "B", 23, 382),
                                                NumNode(start_payment)>>),
                                   Node("<=", <<RangeNode(MainTitle, "B", 23, 382),
                                                NumNode(end_payment)>>)>>),
                       RangeNode(MainTitle, col, 23, 382)>>)>>)
PrincipalPaidFormula(row, start_payment, end_payment) ==
    IfNode(NotBlank("B", row), YearSum("E", start_payment, end_payment), EmptyStr)
InterestPaidFormula(row, start_payment, end_payment) ==
    IfNode(NotBlank("B", row), YearSum("F", start_payment, end_payment), EmptyStr)
\* f'=IF(B{row}<>"", C{row}+D{row}, "")'
TotalPaidYearFormula(row) ==
    IfNode(NotBlank("B", row), Node("+", <<Rel("C", row), Rel("D", row)>>), EmptyStr)
\* the row after the year's last payment: 22 + end_payment + 1
BalanceRowOffByOne(end_payment) == ScheduleHeaderRow + end_payment + 1
\* balance_row = 22 + end_payment
BalanceRow(end_payment) == ScheduleHeaderRow + end_payment
\* f'=IF(B{row}<>"", \'Mortgage Calculator\'!H{balance_row}, "")'
EndBalanceFormula(row, balance_row) ==
    IfNode(NotBlank("B", row), RefNode(MainTitle, "H", FALSE, balance_row), EmptyStr)

\* ------------------------------------------------------------ statements
\* One record per statement of the procedure.  ws names the Python variable
\* holding the sheet (ws, ws_summary, ws_help).
NewWorkbookStmt == [op |-> "workbook"]
TitleStmt(ws, title) == [op |-> "title", ws |-> ws, title |-> title]
\* ws.cell(row, column).value = v   /   ws['B2'] = v
ValueStmt(ws, col, row, v) ==
    [op |-> "value", ws |-> ws, row |-> row, col |-> ColIndex[col], v |-> v]
\* ws.cell(row, column).<attr> = val
StyleStmt(ws, col, row, attr, val) ==
    [op |-> "style", ws |-> ws, row |-> row, col |-> ColIndex[col],
     attr |-> attr, val |-> val]
MergeStmt(ws, range) == [op |-> "merge", ws |-> ws, range |-> range]
CreateSheetStmt(ws, title) == [op |-> "create_sheet", ws |-> ws, title |-> title]
WidthStmt(ws, col, width) == [op |-> "width", ws |-> ws, col |-> col, width |-> width]
SaveStmt(filename) == [op |-> "save", filename |-> filename]
PrintStmt(filename) == [op |-> "print", filename |-> filename]

\* The style objects defined at the top of the procedure, and the ones built
\* in place, each under a short name of its own.
\* Font(bold=True, size=14, color="FFFFFF")
header_font == "b14w"
\* PatternFill(2F5496)
header_fill == "navy"
\* PatternFill(D6EAF8)
input_fill == "blue"
\* PatternFill(D5F5E3)
result_fill == "green"
\* '"$"#,##0.00'
currency_format == "$0.00"
percent_format == "0.00%"
\* Border(left, right, top, bottom = Side(style='thin'))
thin_border == "thin"
\* Font(bold=True)
bold_font == "b"
\* Font(bold=True, color="FFFFFF")
column_header_font == "bw"
\* PatternFill(4472C4)
column_header_fill == "mid"
\* Alignment(horizontal='center')
center == "c"
\* Font(bold=True, size=18, color="2F5496")
title_font == "b18n"
\* Font(bold=True, size=16, color="2F5496")
sheet_title_font == "b16n"
\* Font(bold=True, size=12)
section_font == "b12"
\* Font(bold=True, size=12, color="2F5496")
tips_font == "b12n"

\* wb = openpyxl.Workbook(); ws = wb.active; ws.title = "Mortgage Calculator"
SetupBody == <<NewWorkbookStmt, TitleStmt("ws", MainTitle)>>

\* the title and the LOAN INPUTS banner
TitleBody ==
    <<ValueStmt("ws", "B", 2, PyStr("MORTGAGE PAYMENT CALCULATOR")),
      StyleStmt("ws", "B", 2, "font", title_font),
      MergeStmt("ws", "B2:E2"),
      ValueStmt("ws", "B", 4, PyStr("LOAN INPUTS")),
      StyleStmt("ws", "B", 4, "font", header_font),
      StyleStmt("ws", "B", 4, "fill", header_fill),
      MergeStmt("ws", "B4:E4")>>

\* inputs = [(label_cell, label, value_cell, value, fmt), ...]
inputs ==
    <<[row |-> 6, label |-> "Loan Amount:", value |-> PyNum(300000, 1),
       fmt |-> currency_format],
      [row |-> 7, label |-> "Annual Interest Rate:", value |-> PyNum(65, 1000),
       fmt |-> percent_format],
      [row |-> 8, label |-> "Loan Term (Years):", value |-> PyNum(30, 1),
       fmt |-> "0"],
      [row |-> 9, label |-> "Start Date:", value |-> PyStr("2025-01-01"),
       fmt |-> "YYYY-MM-DD"]>>

\* the input cell styled before it is assigned
InputCellStmtsStyleFirst(in) ==
    <<StyleStmt("ws", "C", in.row, "fill", input_fill),
      StyleStmt("ws", "C", in.row, "border", thin_border),
      ValueStmt("ws", "C", in.row, in.value)>>
\* the statements of the input cell, in the order of the loop body
InputCellStmts(in) ==
    <<ValueStmt("ws", "C", in.row, in.value),
      StyleStmt("ws", "C", in.row, "fill", input_fill),
      StyleStmt("ws", "C", in.row, "border", thin_border)>>

\* one iteration of "for label_cell, label, value_cell, value, fmt in inputs"
InputBody(n) ==
    LET in == inputs[n] IN
    <<ValueStmt("ws", "B", in.row, PyStr(in.label)),
      StyleStmt("ws", "B", in.row, "font", bold_font)>>
    \o InputCellStmts(in)
    \o (IF in.fmt # "YYYY-MM-DD"
        THEN <<StyleStmt("ws", "C", in.row, "number_format", in.fmt)>>
        ELSE <<>>)

\* one labelled result: label, bold, formula, [number format], fill, border
ResultStmts(row, label, formula, fmt) ==
    <<ValueStmt("ws", "B", row, PyStr(label)),
      StyleStmt("ws", "B", row, "font", bold_font),
      ValueStmt("ws", "C", row, PyFormula(formula))>>
    \o (IF fmt # "" THEN <<StyleStmt("ws", "C", row, "number_format", fmt)>> ELSE <<>>)
    \o <<StyleStmt("ws", "C", row, "fill", result_fill),
         StyleStmt("ws", "C", row, "border", thin_border)>>

\* the CALCULATED RESULTS banner, the five results, the schedule banner
ResultsBody ==
    <<ValueStmt("ws", "B", 11, PyStr("CALCULATED RESULTS")),
      StyleStmt("ws", "B", 11, "font", header_font),
      StyleStmt("ws", "B", 11, "fill", header_fill),
      MergeStmt("ws", "B11:E11")>>
    \o ResultStmts(13, "Monthly Payment:", MonthlyPaymentFormula, currency_format)
    \o ResultStmts(14, "Total Payments:", TotalPaymentsFormula, "")
    \o ResultStmts(15, "Total Amount Paid:", TotalPaidFormula, currency_format)
    \o ResultStmts(16, "Total Interest Paid:", TotalInterestFormula, currency_format)
    \o ResultStmts(17, "Interest to Principal Ratio:", RatioFormula, percent_format)
    \o <<ValueStmt("ws", "B", 20, PyStr("AMORTIZATION SCHEDULE")),
         StyleStmt("ws", "B", 20, "font", header_font),
         StyleStmt("ws", "B", 20, "fill", header_fill),
         MergeStmt("ws", "B20:H20")>>

schedule_headers ==
    <<"Payment #", "Payment Date", "Payment", "Principal", "Interest",
      "Extra Payment", "Balance">>
summary_headers ==
    <<"Year", "Principal Paid", "Interest Paid", "Total Paid", "End Balance">>

\* one iteration of "for col, header in enumerate(headers, start=2)"
HeaderBody(ws, row, headers, col) ==
    <<ValueStmt(ws, ColLetter[col], row, PyStr(headers[col - 1])),
      StyleStmt(ws, ColLetter[col], row, "font", column_header_font),
      StyleStmt(ws, ColLetter[col], row, "fill", column_header_fill),
      StyleStmt(ws, ColLetter[col], row, "alignment", center),
      StyleStmt(ws, ColLetter[col], row, "border", thin_border)>>

\* "for col in range(lo, hi + 1): ws.cell(row, col).border = thin_border"
BorderStmts(ws, row, lo, hi) ==
    [c \in 1..(hi - lo + 1) |->
        StyleStmt(ws, ColLetter[lo + c - 1], row, "border", thin_border)]

\* the extra-payment cell of an amortization row
ExtraPaymentStmts(row) ==
    <<ValueStmt("ws", "G", row, ExtraPaymentValue),
      StyleStmt("ws", "G", row, "number_format", currency_format),
      StyleStmt("ws", "G", row, "fill", input_fill)>>

\* one iteration of "for i in range(1, max_payments + 1)"
AmortizationBody(i) ==
    LET row == ScheduleHeaderRow + i IN
    <<ValueStmt("ws", "B", row, PyFormula(PaymentNumberFormula(i))),
      StyleStmt("ws", "B", row, "alignment", center),
      ValueStmt("ws", "C", row, PyFormula(PaymentDateFormula(i, row))),
      StyleStmt("ws", "C", row, "number_format", "MMM-YYYY"),
      ValueStmt("ws", "D", row, PyFormula(PaymentFormula(row))),
      StyleStmt("ws", "D", row, "number_format", currency_format),
      ValueStmt("ws", "E", row, PyFormula(PrincipalFormula(i, row))),
      StyleStmt("ws", "E", row, "number_format", currency_format),
      ValueStmt("ws", "F", row, PyFormula(InterestFormula(i, row))),
      StyleStmt("ws", "F", row, "number_format", currency_format)>>
    \o ExtraPaymentStmts(row)
    \o <<ValueStmt("ws", "H", row, PyFormula(BalanceFormula(i, row))),
         StyleStmt("ws", "H", row, "number_format", currency_format)>>
    \o BorderStmts("ws", row, 2, 8)

\* ws_summary = wb.create_sheet("Yearly Summary") and its title
SummaryTitleBody ==
    <<CreateSheetStmt("ws_summary", SummaryTitle),
      ValueStmt("ws_summary", "B", 2, PyStr("YEARLY PAYMENT SUMMARY")),
      StyleStmt("ws_summary", "B", 2, "font", sheet_title_font),
      MergeStmt("ws_summary", "B2:F2")>>

\* one iteration of "for year in range(1, 31)"
SummaryBody(year) ==
    LET row == SummaryHeaderRow + year
        start_payment == (year - 1) * 12 + 1
        end_payment == year * 12
    IN
    <<ValueStmt("ws_summary", "B", row, PyFormula(YearFormula(year))),
      StyleStmt("ws_summary", "B", row, "alignment", center),
      ValueStmt("ws_summary", "C", row,
                PyFormula(PrincipalPaidFormula(row, start_payment, end_payment))),
      StyleStmt("ws_summary", "C", row, "number_format", currency_format),
      ValueStmt("ws_summary", "D", row,
                PyFormula(InterestPaidFormula(row, start_payment, end_payment))),
      StyleStmt("ws_summary", "D", row, "number_format", currency_format),
      ValueStmt("ws_summary", "E", row, PyFormula(TotalPaidYearFormula(row))),
      StyleStmt("ws_summary", "E", row, "number_format", currency_format),
      ValueStmt("ws_summary", "F", row,
                PyFormula(EndBalanceFormula(row, BalanceRow(end_payment)))),
      StyleStmt("ws_summary", "F", row, "number_format", currency_format)>>
    \o BorderStmts("ws_summary", row, 2, 6)

\* instructions = [(cell, text, font), ...]; font "" stands for None
instructions ==
    <<[row |-> 2, text |-> "HOW TO USE THIS MORTGAGE CALCULATOR",
       font |-> sheet_title_font],
      [row |-> 4, text |-> "1. ENTER YOUR LOAN DETAILS:", font |-> section_font],
      [row |-> 5, text |-> "   - Loan Amount: The total amount you're borrowing (e.g., $300,000)",
       font |-> ""],
      [row |-> 6, text |-> "   - Annual Interest Rate: Enter as decimal (e.g., 6.5% = 0.065)",
       font |-> ""],
      [row |-> 7, text |-> "   - Loan Term: Number of years (typically 15 or 30)", font |-> ""],
      [row |-> 8, text |-> "   - Start Date: When your first payment begins", font |-> ""],
      [row |-> 10, text |-> "2. VIEW YOUR RESULTS:", font |-> section_font],
      [row |-> 11, text |-> "   - Monthly Payment: Your fixed monthly payment amount",
       font |-> ""],
      [row |-> 12, text |-> "   - Total Interest: How much interest you'll pay over the loan life",
       font |-> ""],
      [row |-> 14, text |-> "3. AMORTIZATION SCHEDULE:", font |-> section_font],
      [row |-> 15, text |-> "   - Shows each monthly payment broken into principal and interest",
       font |-> ""],
      [row |-> 16, text |-> "   - Extra Payment column: Add extra payments to see how it affects payoff",
       font |-> ""],
      [row |-> 18, text |-> "4. YEARLY SUMMARY:", font |-> section_font],
      [row |-> 19, text |-> "   - See the 'Yearly Summary' tab for annual totals", font |-> ""],
      [row |-> 21, text |-> "TIPS:", font |-> tips_font],
      [row |-> 22, text |-> "   - Blue cells are INPUT cells - you can modify these values",
       font |-> ""],
      [row |-> 23, text |-> "   - Green cells show CALCULATED results", font |-> ""],
      [row |-> 24, text |-> "   - Add extra payments to pay off your mortgage faster!",
       font |-> ""]>>

\* one iteration of "for cell, text, font in instructions"
InstructionBody(n) ==
    LET ins == instructions[n] IN
    <<ValueStmt("ws_help", "B", ins.row, PyStr(ins.text))>>
    \o (IF ins.font # "" THEN <<StyleStmt("ws_help", "B", ins.row, "font", ins.font)>>
        ELSE <<>>)

\* for ws_current in [ws, ws_summary, ws_help]
width_sheets == <<"ws", "ws_summary", "ws_help">>
WidthBody(n) ==
    LET w == width_sheets[n] IN
    <<WidthStmt(w, "A", 3), WidthStmt(w, "B", 25), WidthStmt(w, "C", 18),
      WidthStmt(w, "D", 15), WidthStmt(w, "E", 15), WidthStmt(w, "F", 15),
      WidthStmt(w, "G", 15), WidthStmt(w, "H", 18)>>

filename == "Mortgage_Payment_Calculator.xlsx"
SaveBody == <<SaveStmt(filename), PrintStmt(filename)>>

\* The blocks of the procedure in source order; a loop block runs its body
\* for i = lo..hi, a straight-line block once.
Segments ==
    <<[name |-> "setup", lo |-> 1, hi |-> 1],
      [name |-> "title", lo |-> 1, hi |-> 1],
      [name |-> "inputs", lo |-> 1, hi |-> Len(inputs)],
      [name |-> "results", lo |-> 1, hi |-> 1],
      [name |-> "schedule_headers", lo |-> 2, hi |-> 1 + Len(schedule_headers)],
      [name |-> "amortization", lo |-> 1, hi |-> max_payments],
      [name |-> "summary_title", lo |-> 1, hi |-> 1],
      [name |-> "summary_headers", lo |-> 2, hi |-> 1 + Len(summary_headers)],
      [name |-> "summary", lo |-> 1, hi |-> LastYear],
      [name |-> "help", lo |-> 1, hi |-> 1],
      [name |-> "instructions", lo |-> 1, hi |-> Len(instructions)],
      [name |-> "widths", lo |-> 1, hi |-> Len(width_sheets)],
      [name |-> "save", lo |-> 1, hi |-> 1]>>

\* the statements of iteration n of block s
Body(s, n) ==
    CASE Segments[s].name = "setup" -> SetupBody
      [] Segments[s].name = "title" -> TitleBody
      [] Segments[s].name = "inputs" -> InputBody(n)
      [] Segments[s].name = "results" -> ResultsBody
      [] Segments[s].name = "schedule_headers" ->
            HeaderBody("ws", ScheduleHeaderRow, schedule_headers, n)
      [] Segments[s].name = "amortization" -> AmortizationBody(n)
      [] Segments[s].name = "summary_title" -> SummaryTitleBody
      [] Segments[s].name = "summary_headers" ->
            HeaderBody("ws_summary", SummaryHeaderRow, summary_headers, n)
      [] Segments[s].name = "summary" -> SummaryBody(n)
      [] Segments[s].name = "help" -> <<CreateSheetStmt("ws_help", HelpTitle)>>
      [] Segments[s].name = "instructions" -> InstructionBody(n)
      [] Segments[s].name = "widths" -> WidthBody(n)
      [] Segments[s].name = "save" -> SaveBody

Done == Len(Segments) + 1

\* ------------------------------------------------------------------ state
VARIABLES
    seg,      \* the block of the procedure being executed, Done after the last
    i,        \* the loop index of the block
    sheets,   \* wb: the sheet titles, in order
    bind,     \* the Python variables ws, ws_summary, ws_help: index into sheets, 0 = unbound
    cells,    \* wb: per sheet, the rows of cells; cells[s][row][column] is a Cell
    merged,   \* wb: the merged ranges, <<sheet, range>>
    widths,   \* wb: <<sheet, column letter>> -> column width
    file,     \* the working directory: file name -> saved workbook
    printed,  \* standard output
    run,      \* how many times the procedure has been started
    pmt       \* what the application's PMT built-in yields for the inputs in the file

vars == <<seg, i, sheets, bind, cells, merged, widths, file, printed, run, pmt>>

pos == <<seg, i>>
book == <<sheets, bind, cells, merged, widths>>

\* A Cell that was never assigned: value None and the default style.
None == [t |-> "none"]
BlankCell ==
    [value |-> None, font |-> "", fill |-> "", border |-> "",
     number_format |-> "", alignment |-> ""]
StyleAttrs == {"font", "fill", "border", "number_format", "alignment"}

\* A sheet keeps its rows up to the last one touched, and each row its cells up
\* to the last column touched; a cell outside is one never touched.
CellAt(sheet, row, col) ==
    IF row <= Len(sheet) /\ col <= Len(sheet[row]) THEN sheet[row][col] ELSE BlankCell
HasValue(sheet, row, col) == CellAt(sheet, row, col).value.t # "none"
\* ws.cell(row, col): the sheet with that cell created if it was not there
Touch(sheet, row, col) ==
    LET tall == IF row <= Len(sheet) THEN sheet
                ELSE sheet \o [x \in 1..(row - Len(sheet)) |-> <<>>]
        wide == IF col <= Len(tall[row]) THEN tall[row]
                ELSE tall[row] \o [x \in 1..(col - Len(tall[row])) |-> BlankCell]
    IN [tall EXCEPT ![row] = wide]

\* f with key bound to v
Put(f, key, v) == IF key \in DOMAIN f THEN [f EXCEPT ![key] = v] ELSE (key :> v) @@ f

\* the Python heap and the working directory as one record
Machine ==
    [sheets |-> sheets, bind |-> bind, cells |-> cells, merged |-> merged,
     widths |-> widths, file |-> file, printed |-> printed]

\* one workbook object kept from call to call instead of a new one per call
ReusedWorkbook ==
    IF sheets = <<>>
    THEN [sheets |-> <<"Sheet">>, cells |-> << <<>> >>, merged |-> {}, widths |-> <<>>]
    ELSE [sheets |-> sheets, cells |-> cells, merged |-> merged, widths |-> widths]
\* openpyxl.Workbook(): a new workbook with one sheet, "Sheet", and nothing else
FreshWorkbook ==
    [sheets |-> <<"Sheet">>, cells |-> << <<>> >>, merged |-> {}, widths |-> <<>>]

\* openpyxl's avoid_duplicate_name: a title already in use gets a numeric suffix
UniqueTitle(titles, title) ==
    IF \E n \in 1..Len(titles) : titles[n] = title THEN title \o "1" ELSE title

\* what wb.save writes: the whole workbook
Snapshot(m) ==
    [sheets |-> m.sheets, cells |-> m.cells, merged |-> m.merged, widths |-> m.widths]

\* the effect of one statement
Apply(m, st) ==
    CASE st.op = "workbook" ->
            \* wb = openpyxl.Workbook(); ws = wb.active
            [m EXCEPT !.sheets = FreshWorkbook.sheets,
                      !.cells = FreshWorkbook.cells,
                      !.merged = FreshWorkbook.merged,
                      !.widths = FreshWorkbook.widths,
                      !.bind = [ws |-> 1, ws_summary |-> 0, ws_help |-> 0]]
      [] st.op = "title" ->
            [m EXCEPT !.sheets[m.bind[st.ws]] = st.title]
      [] st.op = "value" ->
            [m EXCEPT !.cells[m.bind[st.ws]] =
                [Touch(@, st.row, st.col) EXCEPT ![st.row][st.col].value = st.v]]
      [] st.op = "style" ->
            [m EXCEPT !.cells[m.bind[st.ws]] =
                [Touch(@, st.row, st.col) EXCEPT ![st.row][st.col][st.attr] = st.val]]
      [] st.op = "merge" ->
            [m EXCEPT !.merged = @ \cup {<<m.bind[st.ws], st.range>>}]
      [] st.op = "create_sheet" ->
            [m EXCEPT !.sheets = Append(@, UniqueTitle(m.sheets, st.title)),
                      !.cells = Append(@, <<>>),
                      !.bind[st.ws] = Len(m.sheets) + 1]
      [] st.op = "width" ->
            [m EXCEPT !.widths = Put(@, <<m.bind[st.ws], st.col>>, st.width)]
      [] st.op = "save" ->
            \* replaces any file of that name
            [m EXCEPT !.file = Put(@, st.filename, Snapshot(m))]
      [] st.op = "print" ->
            [m EXCEPT !.printed = Append(@, "Successfully created: " \o st.filename)]

\* the statements stmts[n..] executed in order
RECURSIVE Exec(_, _, _)
Exec(stmts, n, m) ==
    IF n > Len(stmts) THEN m ELSE Exec(stmts, n + 1, Apply(m, stmts[n]))

Running == seg < Done
At(name) == Running /\ Segments[seg].name = name

\* One step: the current block (one iteration of it, for a loop) runs, and
\* control moves to the next iteration or the next block.
RunBlock ==
    /\ LET m == Exec(Body(seg, i), 1, Machine) IN
        /\ sheets' = m.sheets
        /\ bind' = m.bind
        /\ cells' = m.cells
        /\ merged' = m.merged
        /\ widths' = m.widths
        /\ file' = m.file
        /\ printed' = m.printed
    /\ IF i < Segments[seg].hi
       THEN /\ i' = i + 1
            /\ UNCHANGED seg
       ELSE /\ seg' = seg + 1
            /\ i' = IF seg < Len(Segments) THEN Segments[seg + 1].lo ELSE 1
    /\ UNCHANGED <<run, pmt>>

CreateWorkbook == At("setup") /\ RunBlock
WriteTitle == At("title") /\ RunBlock
WriteInput == At("inputs") /\ RunBlock
WriteResults == At("results") /\ RunBlock
WriteScheduleHeader == At("schedule_headers") /\ RunBlock
WriteAmortizationRow == At("amortization") /\ RunBlock
CreateSummarySheet == At("summary_title") /\ RunBlock
WriteSummaryHeader == At("summary_headers") /\ RunBlock
WriteSummaryRow == At("summary") /\ RunBlock
CreateHelpSheet == At("help") /\ RunBlock
WriteInstruction == At("instructions") /\ RunBlock
SetColumnWidths == At("widths") /\ RunBlock
SaveWorkbook == At("save") /\ RunBlock

\* create_mortgage_calculator() is called again
Rerun ==
    /\ seg = Done
    /\ run < MaxRuns
    /\ run' = run + 1
    /\ seg' = 1 /\ i' = Segments[1].lo
    /\ UNCHANGED <<sheets, bind, cells, merged, widths, file, printed, pmt>>

\* the index of the sheet of that title in workbook w, 0 if there is none
SheetIndex(w, title) ==
    IF \E n \in 1..Len(w.sheets) : w.sheets[n] = title
    THEN CHOOSE n \in 1..Len(w.sheets) : w.sheets[n] = title
    ELSE 0

\* ------------------------------------------------- the user of the file
\* The generated file is opened in a spreadsheet application and its input
\* cells (the blue ones) are edited.
Saved == file[filename]
HasFile == filename \in DOMAIN file
\* the sheet of that title in the saved workbook
SavedSheet(title) == Saved.cells[SheetIndex(Saved, title)]

\* ------------------------------------- the application's formula evaluator
\* IF, MAX, PMT, EDATE, SUMPRODUCT, comparison and arithmetic as the common
\* spreadsheet applications define them.  A value is a number (fixed point,
\* n = Scale * the number), a text, a truth value, an error, the content of a
\* cell never filled, a date, or the result of an aggregate; the model does not
\* compute dates and aggregates, only that there is one.
VNum(n) == [t |-> "num", n |-> n, s |-> ""]
VText(s) == [t |-> "text", n |-> 0, s |-> s]
VBool(b) == [t |-> "bool", n |-> IF b THEN 1 ELSE 0, s |-> ""]
VErr == [t |-> "err", n |-> 0, s |-> ""]
VEmpty == [t |-> "empty", n |-> 0, s |-> ""]
VDate == [t |-> "date", n |-> 0, s |-> ""]
VAgg == [t |-> "agg", n |-> 0, s |-> ""]

\* the number n/d in fixed point
ToFixed(n, d) == (n * Scale) \div d
\* fixed-point product and quotient, split so that no intermediate result
\* leaves the 32-bit integers
Mul(a, b) == (a \div Scale) * b + ((a % Scale) * b) \div Scale
DivPos(a, b) ==
    IF b % Scale = 0
    THEN (a \div b) * Scale + (a % b) \div (b \div Scale)
    ELSE (a \div b) * Scale + ((a % b) * Scale) \div b
Div(a, b) == IF b > 0 THEN DivPos(a, b) ELSE DivPos(-a, -b)
Max2(a, b) == IF a >= b THEN a ELSE b

\* the value of a cell that holds a Python value other than a formula
LiteralValue(v) ==
    CASE v.t = "none" -> VEmpty
      [] v.t = "num" -> VNum(ToFixed(v.n, v.d))
      [] v.t = "str" -> VText(v.s)

IsNumber(v) == v.t \in {"num", "empty"}
IsText(v) == v.t \in {"text", "empty"}

\* + - * /: an error stays an error, a text operand is #VALUE!, a zero divisor
\* #DIV/0!
Arith(op, a, b) ==
    CASE a.t = "err" \/ b.t = "err" -> VErr
      [] a.t = "agg" \/ b.t = "agg" -> VAgg
      [] ~(IsNumber(a) /\ IsNumber(b)) -> VErr
      [] op = "+" -> VNum(a.n + b.n)
      [] op = "-" -> VNum(a.n - b.n)
      [] op = "*" -> VNum(Mul(a.n, b.n))
      [] op = "/" -> IF b.n = 0 THEN VErr ELSE VNum(Div(a.n, b.n))

\* = on values: numbers by value, texts by content, a number never equals a text
Same(a, b) ==
    \/ IsNumber(a) /\ IsNumber(b) /\ a.n = b.n
    \/ IsText(a) /\ IsText(b) /\ a.s = b.s
\* <= on values: every number sorts before every text
AtMost(a, b) ==
    \/ IsNumber(a) /\ IsNumber(b) /\ a.n <= b.n
    \/ IsText(a) /\ IsText(b) /\ a.s = b.s
    \/ a.t = "num" /\ b.t = "text"
Compare(op, a, b) ==
    CASE a.t = "err" \/ b.t = "err" -> VErr
      [] op = "<>" -> VBool(~Same(a, b))
      [] op = "<=" -> VBool(AtMost(a, b))
      [] op = ">=" -> VBool(AtMost(b, a))

\* grid[row][col], VEmpty outside the grid
GridAt(grid, row, col) ==
    IF row <= Len(grid) /\ col <= Len(grid[row]) THEN grid[row][col] ELSE VEmpty

\* The value a reference yields.  env.w is the workbook, env.s the sheet being
\* calculated, env.done the values of the sheets before it, env.rows those of
\* its rows calculated so far and env.cur those of the row in progress.
\* Sheets are calculated in order and cells row by row, left to right, which
\* is an order of dependency for a workbook whose formulas only refer backwards.
Lookup(env, ref) ==
    LET target == IF ref.sheet = "" THEN env.s ELSE SheetIndex(env.w, ref.sheet)
        col == ColIndex[ref.col]
    IN CASE target = 0 -> VErr
         [] target # 0 /\ target < env.s -> GridAt(env.done[target], ref.row, col)
         [] target = env.s /\ ref.row <= Len(env.rows) -> GridAt(env.rows, ref.row, col)
         [] target = env.s /\ ref.row = Len(env.rows) + 1 /\ col <= Len(env.cur) ->
                env.cur[col]
         [] OTHER -> VEmpty

RECURSIVE Eval(_, _)
Eval(ast, env) ==
    CASE ast.op = "num" -> VNum(ast.n * Scale)
      [] ast.op = "str" -> VText(ast.s)
      [] ast.op = "ref" -> Lookup(env, ast)
      [] ast.op = "IF" ->
            LET c == Eval(ast.args[1], env) IN
            CASE c.t = "bool" -> IF c.n = 1 THEN Eval(ast.args[2], env)
                                 ELSE Eval(ast.args[3], env)
              [] c.t = "num" -> IF c.n # 0 THEN Eval(ast.args[2], env)
                                ELSE Eval(ast.args[3], env)
              [] OTHER -> VErr
      [] ast.op \in {"<>", "<=", ">="} ->
            Compare(ast.op, Eval(ast.args[1], env), Eval(ast.args[2], env))
      [] ast.op \in {"+", "-", "*", "/"} ->
            Arith(ast.op, Eval(ast.args[1], env), Eval(ast.args[2], env))
      [] ast.op = "neg" -> Arith("-", VNum(0), Eval(ast.args[1], env))
      [] ast.op = "MAX" ->
            LET a == Eval(ast.args[1], env)
                b == Eval(ast.args[2], env)
            IN CASE a.t = "err" \/ b.t = "err" -> VErr
                 [] a.t = "agg" \/ b.t = "agg" -> VAgg
                 [] ~(IsNumber(a) /\ IsNumber(b)) -> VErr
                 [] OTHER -> VNum(Max2(a.n, b.n))
      [] ast.op = "PMT" ->
            \* PMT(rate, nper, pv) is negative for a loan; #NUM! for no periods
            LET rate == Eval(ast.args[1], env)
                nper == Eval(ast.args[2], env)
                pv == Eval(ast.args[3], env)
            IN IF IsNumber(rate) /\ IsNumber(nper) /\ IsNumber(pv) /\ nper.n # 0
               THEN VNum(-pmt) ELSE VErr
      [] ast.op = "EDATE" ->
            LET start == Eval(ast.args[1], env)
                months == Eval(ast.args[2], env)
            IN IF start.t \in {"num", "text", "date"} /\ months.t = "num"
               THEN VDate ELSE VErr
      [] ast.op = "SUMPRODUCT" -> VAgg

\* the value of one cell
CellValue(cell, env) ==
    IF cell.value.t = "formula" THEN Eval(cell.value.ast, env)
    ELSE LiteralValue(cell.value)

\* the values of the cells of row, after those in env.cur
RECURSIVE RowValues(_, _)
RowValues(row, env) ==
    IF Len(env.cur) >= Len(row) THEN env.cur
    ELSE RowValues(row, [env EXCEPT !.cur = Append(@, CellValue(row[Len(env.cur) + 1], env))])

\* the values of the rows of sheet up to row last, after those in env.rows
RECURSIVE RowsValues(_, _, _)
RowsValues(sheet, last, env) ==
    IF Len(env.rows) >= last THEN env.rows
    ELSE RowsValues(sheet, last,
            [env EXCEPT !.rows = Append(@, RowValues(sheet[Len(env.rows) + 1],
                                                     [env EXCEPT !.cur = <<>>]))])

\* the values of all rows of sheet, after those in env.rows, twenty rows at a
\* time (which keeps the nesting of the evaluation shallow)
RECURSIVE SheetValues(_, _)
SheetValues(sheet, env) ==
    IF Len(env.rows) >= Len(sheet) THEN env.rows
    ELSE LET last == IF Len(env.rows) + 20 < Len(sheet) THEN Len(env.rows) + 20
                     ELSE Len(sheet)
         IN SheetValues(sheet, [env EXCEPT !.rows = RowsValues(sheet, last, env)])

\* the values of the sheets of w, after those in done
RECURSIVE BookValues(_, _)
BookValues(w, done) ==
    IF Len(done) >= Len(w.cells) THEN done
    ELSE BookValues(w,
            Append(done, SheetValues(w.cells[Len(done) + 1],
                            [w |-> w, s |-> Len(done) + 1, done |-> done,
                             rows |-> <<>>, cur |-> <<>>])))

\* what the application shows for workbook w: per sheet, row and column a value
Recalculate(w) == BookValues(w, <<>>)

\* a value the application displays as an empty cell
Blank(v) == (v.t = "text" /\ v.s = "") \/ v.t = "empty"

\* 0, 1/2, 1, ... years, and a term longer than the table
TermChoices == {PyNum(h, 2) : h \in 0..MaxTermHalves} \cup {PyNum(40, 1)}
LoanChoices == {PyNum(1000, 1), PyNum(300000, 1)}
RateChoices == {PyNum(0, 1), PyNum(65, 1000)}
ExtraChoices == {PyNum(0, 1), PyNum(2000, 1)}
\* 1896.20 is the payment of the generated defaults
PaymentChoices == {1000 * Scale, 1896 * Scale + 200}

\* the user types v into cell col/row of the "Mortgage Calculator" sheet
UserEdit(col, row, v) ==
    /\ seg = Done /\ HasFile
    /\ SheetIndex(Saved, MainTitle) # 0
    /\ HasValue(SavedSheet(MainTitle), row, ColIndex[col])
    /\ CellAt(SavedSheet(MainTitle), row, ColIndex[col]).value # v
    /\ file' = [file EXCEPT ![filename].cells[SheetIndex(Saved, MainTitle)]
                                          [row][ColIndex[col]].value = v]
    /\ UNCHANGED <<seg, i, sheets, bind, cells, merged, widths, printed, run>>

UserSetTerm == \E v \in TermChoices : UserEdit("C", 8, v) /\ UNCHANGED pmt
UserSetLoan == \E v \in LoanChoices : UserEdit("C", 6, v) /\ UNCHANGED pmt
UserSetRate == \E v \in RateChoices : UserEdit("C", 7, v) /\ UNCHANGED pmt
UserSetExtra ==
    \E n \in 1..MaxEditRow, v \in ExtraChoices :
        UserEdit("G", ScheduleHeaderRow + n, v) /\ UNCHANGED pmt
\* the application recomputes the monthly payment
EnginePMT ==
    /\ seg = Done /\ HasFile
    /\ \E p \in PaymentChoices : pmt' = p /\ pmt # p
    /\ UNCHANGED <<seg, i, sheets, bind, cells, merged, widths, file,
                   printed, run>>

Init ==
    /\ seg = 1 /\ i = Segments[1].lo
    /\ sheets = <<>>
    /\ bind = [ws |-> 0, ws_summary |-> 0, ws_help |-> 0]
    /\ cells = <<>>
    /\ merged = {}
    /\ widths = <<>>
    /\ file = <<>>
    /\ printed = <<>>
    /\ run = 1
    /\ pmt = 1896 * Scale + 200

Build ==
    \/ CreateWorkbook
    \/ WriteTitle
    \/ WriteInput
    \/ WriteResults
    \/ WriteScheduleHeader
    \/ WriteAmortizationRow
    \/ CreateSummarySheet
    \/ WriteSummaryHeader
    \/ WriteSummaryRow
    \/ CreateHelpSheet
    \/ WriteInstruction
    \/ SetColumnWidths
    \/ SaveWorkbook

User ==
    \/ UserSetTerm
    \/ UserSetLoan
    \/ UserSetRate
    \/ UserSetExtra
    \/ EnginePMT

\* one run of the generator, then the user works with the file
Next == Build \/ User
Spec == Init /\ [][Next]_vars

\* the generator is run MaxRuns times in a row
NextRerun == Build \/ Rerun
SpecRerun == Init /\ [][NextRerun]_vars

\* ------------------------------------------------- reading the workbook
\* the cells a formula names, ranges cell by cell: [sheet, col, row], sheet ""
\* for a reference without a sheet prefix
CellRef(sheet, col, row) == [sheet |-> sheet, col |-> col, row |-> row]
RECURSIVE Refs(_)
Refs(ast) ==
    CASE ast.op = "ref" -> {CellRef(ast.sheet, ast.col, ast.row)}
      [] ast.op = "range" -> {CellRef(ast.sheet, ast.col, r) : r \in ast.r1..ast.r2}
      [] ast.op \in {"num", "str"} -> {}
      [] OTHER -> UNION {Refs(ast.args[n]) : n \in 1..Len(ast.args)}

\* the sheet the Python variable v holds, <<>> while it holds none
SheetOf(v) == IF bind[v] = 0 THEN <<>> ELSE cells[bind[v]]
IsFormula(sheet, row, col) == CellAt(sheet, row, col).value.t = "formula"
FormulaAt(sheet, row, col) == CellAt(sheet, row, col).value.ast
Past(name) ==
    \E s \in 1..Len(Segments) : Segments[s].name = name /\ seg > s

\* the input cells of the "Mortgage Calculator" sheet, as <<row, column>>
InputCells ==
    {<<r, ColIndex.C>> : r \in 6..9}
    \cup {<<ScheduleHeaderRow + n, ColIndex.G>> : n \in 1..max_payments}
LoanInputs == {CellRef("", "C", r) : r \in 6..9}

\* ---------------------------------------------------------------- claims

\* C1: the principal formula of amortization row 22+i names, besides its own
\* payment-number cell, the payment C13 and the rate C7, exactly one balance:
\* the loan amount C6 for i = 1 and H of row 22+i-1 for every other i, without
\* a sheet prefix; once the table is written this holds of all 360 rows.
PrincipalChain ==
    \A n \in 1..max_payments :
        LET row == ScheduleHeaderRow + n IN
        /\ Past("amortization") => HasValue(SheetOf("ws"), row, ColIndex.E)
        /\ HasValue(SheetOf("ws"), row, ColIndex.E) =>
            /\ IsFormula(SheetOf("ws"), row, ColIndex.E)
            /\ Refs(FormulaAt(SheetOf("ws"), row, ColIndex.E))
                 = {CellRef("", "B", row), CellRef("", "C", 13), CellRef("", "C", 7),
                    IF n = 1 THEN CellRef("", "C", 6) ELSE CellRef("", "H", row - 1)}

PrincipalChainWitness ==
    /\ seg = Done
    /\ CellRef("", "H", 381) \in Refs(FormulaAt(SheetOf("ws"), 382, ColIndex.E))
    /\ CellRef("", "C", 6) \in Refs(FormulaAt(SheetOf("ws"), 23, ColIndex.E))

\* C3: the End Balance formula of summary row 4+Y is IF(B{4+Y}<>"", ref, "")
\* where ref is a plain reference to H of row 22+12*Y of the sheet titled
\* "Mortgage Calculator", a row of the amortization table; once the summary is
\* written this holds of all 30 years.
EndBalanceReadsYearEnd ==
    \A year \in 1..LastYear :
        LET row == SummaryHeaderRow + year
            target == ScheduleHeaderRow + 12 * year
        IN
        /\ Past("summary") => HasValue(SheetOf("ws_summary"), row, ColIndex.F)
        /\ HasValue(SheetOf("ws_summary"), row, ColIndex.F) =>
            /\ IsFormula(SheetOf("ws_summary"), row, ColIndex.F)
            /\ LET f == FormulaAt(SheetOf("ws_summary"), row, ColIndex.F) IN
                /\ f.op = "IF"
                /\ f.args[2] = RefNode(MainTitle, "H", FALSE, target)
                /\ Refs(f) = {CellRef("", "B", row), CellRef(MainTitle, "H", target)}
            /\ target \in (ScheduleHeaderRow + 1)..(ScheduleHeaderRow + max_payments)
            /\ sheets[bind.ws] = MainTitle
            /\ HasValue(SheetOf("ws"), target, ColIndex.H)

EndBalanceWitness ==
    /\ seg = Done
    /\ CellRef(MainTitle, "H", 382)
         \in Refs(FormulaAt(SheetOf("ws_summary"), 34, ColIndex.F))

\* C4: an input cell (C6..C9, G23..G382) that has been written holds a number
\* or a text, never a formula, in every state of the build and in the saved
\* file; when the build is over all of them have been written.
InputsStayLiteral ==
    /\ \A c \in InputCells :
        /\ Past("amortization") => HasValue(SheetOf("ws"), c[1], c[2])
        /\ HasValue(SheetOf("ws"), c[1], c[2]) =>
              DataType(CellAt(SheetOf("ws"), c[1], c[2]).value) \in {"n", "s"}
    /\ HasFile =>
        \A c \in InputCells :
            /\ HasValue(SavedSheet(MainTitle), c[1], c[2])
            /\ DataType(CellAt(SavedSheet(MainTitle), c[1], c[2]).value) \in {"n", "s"}

InputsStayLiteralWitness ==
    /\ seg = Done /\ HasFile
    /\ CellAt(SavedSheet(MainTitle), 382, ColIndex.G).value = PyNum(0, 1)
    /\ CellAt(SavedSheet(MainTitle), 9, ColIndex.C).value = PyStr("2025-01-01")
    /\ CellAt(SavedSheet(MainTitle), 6, ColIndex.C).value = PyNum(300000, 1)

\* C5 as claimed: each results formula C13..C17 names input cells C6..C9 only.
ResultsNameOnlyInputs ==
    \A r \in 13..17 :
        IsFormula(SheetOf("ws"), r, ColIndex.C) =>
            Refs(FormulaAt(SheetOf("ws"), r, ColIndex.C)) \subseteq LoanInputs

\* C5 as amended: each results formula C13..C17 names only input cells C6..C9
\* and results cells above it; C13 and C14 name input cells only, so every
\* result is computed from the inputs alone.
ResultsNameInputsOrEarlierResults ==
    /\ Past("results") =>
          \A r \in 13..17 : IsFormula(SheetOf("ws"), r, ColIndex.C)
    /\ \A r \in 13..17 :
        IsFormula(SheetOf("ws"), r, ColIndex.C) =>
            Refs(FormulaAt(SheetOf("ws"), r, ColIndex.C))
                \subseteq LoanInputs \cup {CellRef("", "C", q) : q \in 13..(r - 1)}
    /\ \A r \in 13..14 :
        IsFormula(SheetOf("ws"), r, ColIndex.C) =>
            Refs(FormulaAt(SheetOf("ws"), r, ColIndex.C)) \subseteq LoanInputs

ResultsWitness ==
    /\ seg = Done
    /\ CellRef("", "C", 13) \in Refs(FormulaAt(SheetOf("ws"), 15, ColIndex.C))
    /\ CellRef("", "C", 16) \in Refs(FormulaAt(SheetOf("ws"), 17, ColIndex.C))

\* ------------------------------------------------ the file as displayed
\* what the application shows for the saved file
Shown == Recalculate(Saved)
MainShown(v) == v[SheetIndex(Saved, MainTitle)]
SummaryShown(v) == v[SheetIndex(Saved, SummaryTitle)]
\* the term in years the file holds, a number n/d
Term == CellAt(SavedSheet(MainTitle), 8, ColIndex.C).value
\* payment n lies within the term: n <= term * 12
WithinTerm(n) == n * Term.d <= 12 * Term.n
\* the rows of a sheet that hold a value in some column
ValueRows(sheet) ==
    {r \in 1..Len(sheet) : \E c \in 1..Len(sheet[r]) : HasValue(sheet, r, c)}

\* C2: whatever the term, the table has exactly the 360 data rows 23..382,
\* every column B..H of each filled, and the payment-number cell of row 22+n
\* shows n when n <= term*12 and is blank when n > term*12.
TableAlways360Rows ==
    /\ Past("amortization") =>
        /\ {r \in ValueRows(SheetOf("ws")) : r > ScheduleHeaderRow}
             = (ScheduleHeaderRow + 1)..(ScheduleHeaderRow + 360)
        /\ \A n \in 1..360, c \in ColIndex.B..ColIndex.H :
              HasValue(SheetOf("ws"), ScheduleHeaderRow + n, c)
    /\ (seg = Done /\ HasFile) =>
        LET v == MainShown(Shown) IN
        /\ Len(v) = ScheduleHeaderRow + 360
        /\ \A n \in 1..360 :
              LET number == v[ScheduleHeaderRow + n][ColIndex.B] IN
              IF WithinTerm(n) THEN number = VNum(n * Scale) ELSE Blank(number)

\* the term is 2 1/2 years: payment 30 is shown, payment 31 is blank
TableRowsWitness ==
    /\ seg = Done /\ HasFile
    /\ Term = PyNum(5, 2)
    /\ LET v == MainShown(Shown) IN
        /\ v[ScheduleHeaderRow + 30][ColIndex.B] = VNum(30 * Scale)
        /\ Blank(v[ScheduleHeaderRow + 31][ColIndex.B])
        /\ Blank(v[ScheduleHeaderRow + 360][ColIndex.B])

\* the formula cells of amortization row 22+n: all blank / all filled
AmortBlank(v, n) ==
    \A c \in {"B", "C", "D", "E", "F", "H"} : Blank(v[ScheduleHeaderRow + n][ColIndex[c]])
AmortFilled(v, n) ==
    \A c \in {"B", "C", "D", "E", "F", "H"} : ~Blank(v[ScheduleHeaderRow + n][ColIndex[c]])
\* the formula cells of summary row 4+year: all blank / all filled
SummaryBlank(v, year) ==
    \A c \in ColIndex.B..ColIndex.F : Blank(v[SummaryHeaderRow + year][c])
SummaryFilled(v, year) ==
    \A c \in ColIndex.B..ColIndex.F : ~Blank(v[SummaryHeaderRow + year][c])
YearPayments(year) == (12 * (year - 1) + 1)..(12 * year)
\* the summary row mirrors the twelve rows of its year
Mirrors(main, summary, year) ==
    /\ SummaryBlank(summary, year) <=> \A n \in YearPayments(year) : AmortBlank(main, n)
    /\ SummaryFilled(summary, year) <=> \A n \in YearPayments(year) : AmortFilled(main, n)

\* C6: whatever the term, summary row Y is blank once Y exceeds the
\* term, blank exactly when the rows of payments 12(Y-1)+1..12Y are blank and
\* filled exactly when they are filled.
SummaryMirrorsTable ==
    (seg = Done /\ HasFile) =>
        LET v == Shown IN
        \A year \in 1..LastYear :
            /\ year * Term.d > Term.n => SummaryBlank(SummaryShown(v), year)
            /\ Mirrors(MainShown(v), SummaryShown(v), year)

TargetSheet(ws, ref) ==
    IF ref.sheet = "" THEN bind[ws] ELSE SheetIndex([sheets |-> sheets], ref.sheet)
\* statement st assigns a value to the cell ref names when read through ws
Fills(st, ws, ref) ==
    /\ st.op = "value"
    /\ bind[st.ws] = TargetSheet(ws, ref)
    /\ st.row = ref.row /\ st.col = ColIndex[ref.col]
\* the cell ref names holds a value now, or gets one from a statement of body
\* before statement j
FilledBefore(body, j, ref) ==
    \/ /\ TargetSheet(body[j].ws, ref) # 0
       /\ HasValue(cells[TargetSheet(body[j].ws, ref)], ref.row, ColIndex[ref.col])
    \/ \E q \in 1..(j - 1) : Fills(body[q], body[j].ws, ref)
\* a reference with a sheet prefix goes from "Yearly Summary" to "Mortgage Calculator"
CrossSheetOk(title, ref) ==
    ref.sheet # "" => (title = SummaryTitle /\ ref.sheet = MainTitle)

\* C8: every cell a formula names holds a value when the formula is assigned,
\* or was assigned earlier in the same block or loop iteration; a reference with
\* a sheet prefix occurs only on "Yearly Summary" and names "Mortgage
\* Calculator"; and in the workbook as saved every cell a formula names holds a
\* value.
FormulasNameFilledCells ==
    /\ Running =>
        LET body == Body(seg, i) IN
        \A j \in 1..Len(body) :
            (body[j].op = "value" /\ body[j].v.t = "formula") =>
                \A ref \in Refs(body[j].v.ast) :
                    /\ FilledBefore(body, j, ref)
                    /\ CrossSheetOk(sheets[bind[body[j].ws]], ref)
    /\ (seg = Done /\ HasFile /\ Saved = Snapshot(Machine)) =>
        \A n \in 1..Len(Saved.cells) :
            \A r \in 1..Len(Saved.cells[n]) :
                \A c \in 1..Len(Saved.cells[n][r]) :
                    IsFormula(Saved.cells[n], r, c) =>
                        \A ref \in Refs(FormulaAt(Saved.cells[n], r, c)) :
                            LET t == IF ref.sheet = "" THEN n
                                     ELSE SheetIndex(Saved, ref.sheet)
                            IN /\ t # 0
                               /\ HasValue(Saved.cells[t], ref.row, ColIndex[ref.col])
                               /\ CrossSheetOk(Saved.sheets[n], ref)

\* the summary row of year 30 is about to be written and names H382 of the
\* first sheet, which holds a value
FilledCellsWitness ==
    /\ At("summary") /\ i = LastYear
    /\ \E j \in 1..Len(Body(seg, i)) :
        /\ Body(seg, i)[j].op = "value"
        /\ Body(seg, i)[j].v.t = "formula"
        /\ CellRef(MainTitle, "H", 382) \in Refs(Body(seg, i)[j].v.ast)
    /\ HasValue(SheetOf("ws"), 382, ColIndex.H)

\* C9: a style attribute is only ever set on a cell that holds a value, or got
\* one earlier in the same block; when the column widths are set the three
\* sheets exist and no statement that assigns a value is left to run; and when
\* the workbook is saved every styling statement of the procedure has left its
\* attribute on a cell that holds a value.
StylingFollowsContent ==
    /\ Running =>
        LET body == Body(seg, i) IN
        \A j \in 1..Len(body) :
            body[j].op = "style" =>
                \/ HasValue(SheetOf(body[j].ws), body[j].row, body[j].col)
                \/ \E q \in 1..(j - 1) :
                      /\ body[q].op = "value" /\ body[q].ws = body[j].ws
                      /\ body[q].row = body[j].row /\ body[q].col = body[j].col
    /\ (At("widths") \/ widths # <<>>) =>
        /\ sheets = <<MainTitle, SummaryTitle, HelpTitle>>
        /\ \A s \in seg..Len(Segments) :
              \A n \in Segments[s].lo..Segments[s].hi :
                  (s > seg \/ n >= i) =>
                      \A j \in 1..Len(Body(s, n)) : Body(s, n)[j].op # "value"
    /\ At("save") =>
        \A s \in 1..Len(Segments) :
            \A n \in Segments[s].lo..Segments[s].hi :
                \A j \in 1..Len(Body(s, n)) :
                    LET st == Body(s, n)[j] IN
                    st.op = "style" =>
                        /\ CellAt(SheetOf(st.ws), st.row, st.col)[st.attr] = st.val
                        /\ HasValue(SheetOf(st.ws), st.row, st.col)

\* the widths of the first sheet are set, those of the last are not yet, and
\* the styled cells C6 and H382 hold their values
StylingWitness ==
    /\ At("widths") /\ i = 2
    /\ <<1, "H">> \in DOMAIN widths
    /\ CellAt(SheetOf("ws"), 6, ColIndex.C).fill = input_fill
    /\ HasValue(SheetOf("ws"), 6, ColIndex.C)
    /\ CellAt(SheetOf("ws"), 382, ColIndex.H).border = thin_border
    /\ HasValue(SheetOf("ws"), 382, ColIndex.H)

\* C7: a run that finds the file of an earlier run writes the same workbook
\* over it, cell by cell, style by style, on the same three sheets: once the
\* file exists no step changes it. Every run starts its content on a workbook
\* of one empty sheet, whatever the run before left behind.
RerunWritesSameFile ==
    /\ [](At("title") =>
            Snapshot(Machine) = [sheets |-> <<MainTitle>>, cells |-> << <<>> >>,
                                 merged |-> {}, widths |-> <<>>])
    /\ [](HasFile => Saved.sheets = <<MainTitle, SummaryTitle, HelpTitle>>)
    /\ [][HasFile => file' = file]_vars

\* the second run has saved and returned
RerunWitness ==
    /\ run = 2 /\ seg = Done /\ HasFile
    /\ Len(printed) = 2
    /\ Saved = Snapshot(Machine)

====
